---- MODULE Spec2Model ----
(***************************************************************************)
(* Model of build-database.py: the per-pair archive synchronisation        *)
(* (Exploit.refresh_zip, Exploit.download_zip, Exploit.get_branch_name,    *)
(* Exploit.get_branch_name_from_github) driven by main's loop over the     *)
(* loaded pocs, against a file system (archives and branch sidecars), a    *)
(* wall clock, the metadata feed and the remote repositories.              *)
(***************************************************************************)
EXTENDS Integers, Sequences, FiniteSets, TLC

VARIABLES
    record_files, \* basenames of the record files collect_jsons finds in the feed
    probe,      \* inputs and outputs of the functions applied on their own
    pocs,       \* the list of Exploit main builds from the feed's record files
    clock,      \* wall clock in seconds: the mtime a plain write gives a file
    feed,       \* feed[i]: value of Exploit.updated_at() for pocs[i]
    repo,       \* repo[i]: default branch of pocs[i]'s remote, "" = no commits
    archive,    \* archive[path]: the file at an output_file() path
    sidecar,    \* sidecar[path]: the file at a cached_branchname path
    pc,         \* position of the process in main / refresh_zip / download_zip
    idx,        \* position of main's for loop in pocs
    exit_code,  \* value returned by main (-1 while it has not returned)
    branch,     \* download_zip's local `branch`
    resp,       \* chunks of the archive response not yet yielded by iter_content
    exc,        \* the exception leaving refresh_zip ("" = none)
    faults,     \* number of failures the environment has injected so far
    pre,        \* history: the archive file as refresh_zip's os.stat found it
    trace,      \* history: the steps of the current refresh_zip call, in order
    result,     \* history: how the last refresh_zip call for pocs[i] with its
                \*          current descriptor ended ("none" = no such call yet)
    resolved    \* history: resolved[path] = branch the last successful landing-page
                \*          resolution for that sidecar path returned ("" = none yet)

vars == <<record_files, probe, pocs, clock, feed, repo, archive, sidecar, pc, idx, exit_code, branch, resp,
          exc, faults, pre, trace, result, resolved>>

(***************************************************************************)
(* Bounds of the model.                                                    *)
(***************************************************************************)
\* the clock and the feed's timestamps range over 0..MaxTime
MaxTime == 1
\* number of chunks iter_content yields for an archive body
MaxChunks == 2
\* number of failures (network, I/O, unusable page, top-level) in a behaviour
MaxFaults == 1
\* number of commits links in a landing page given to the scraper on its own
MaxLinks == 2

(***************************************************************************)
(* Identifiers and descriptors.  Text that the code takes apart is a       *)
(* sequence of characters.                                                 *)
(***************************************************************************)
\* '{id:04}' applied to the str that CVE.fromstr stores: fill with '0' up to
\* width 4, after the text (str is left-aligned); longer text is kept whole
Pad04(s) == IF Len(s) >= 4 THEN s ELSE s \o [k \in 1..(4 - Len(s)) |-> "0"]

CVE_str(cve) == <<"C", "V", "E", "-">> \o cve.year \o <<"-">> \o Pad04(cve.id)

Digits == {"0", "1", "2", "3", "4", "5", "6", "7", "8", "9"}

\* number of digits of s from position k on (what a greedy \d+ takes there)
RECURSIVE DigitRun(_, _)
DigitRun(s, k) == IF k <= Len(s) /\ s[k] \in Digits THEN 1 + DigitRun(s, k + 1) ELSE 0

\* the groups of CVE-(?P<year>\d+)-(?P<id>\d+) matched at position p of s
CVE_match_at(s, p) ==
    LET n1 == DigitRun(s, p + 4)
        n2 == DigitRun(s, p + 5 + n1)
    IN  IF /\ Len(s) >= p + 3
           /\ SubSeq(s, p, p + 3) = <<"C", "V", "E", "-">>
           /\ n1 >= 1
           /\ Len(s) >= p + 4 + n1
           /\ s[p + 4 + n1] = "-"
           /\ n2 >= 1
        THEN [ok |-> TRUE, year |-> SubSeq(s, p + 4, p + 3 + n1),
              id |-> SubSeq(s, p + 5 + n1, p + 4 + n1 + n2)]
        ELSE [ok |-> FALSE, year |-> <<>>, id |-> <<>>]

\* the pattern without its '^': the first position of s where it matches
CVE_fromstr_unanchored(s) ==
    IF \E p \in 1..Len(s) : CVE_match_at(s, p).ok
    THEN CVE_match_at(s, CHOOSE p \in 1..Len(s) :
                            /\ CVE_match_at(s, p).ok
                            /\ \A q \in 1..(p - 1) : ~CVE_match_at(s, q).ok)
    ELSE [ok |-> FALSE, year |-> <<>>, id |-> <<>>]

\* CVE.fromstr, lines 40-46: reg.search with '^' matches at the start only;
\* ok = FALSE is the ValueError of line 45, and the groups are text
CVE_fromstr(s) == CVE_match_at(s, 1)

\* the record file of the feed that lists the repositories of pocs
RecordName1 ==
    <<"C", "V", "E", "-", "2", "0", "2", "1", "-", "0", "0", "0", "1",
      ".", "j", "s", "o", "n">>

\* a file of the feed whose name does not start with an identifier (it holds
\* an empty list of repositories)
StrayName == <<"x">> \o RecordName1

\* line 182: the identifier of the record file, as fromstr builds it
Cve1 == [year |-> CVE_fromstr(RecordName1).year, id |-> CVE_fromstr(RecordName1).id]

(***************************************************************************)
(* Python values of the fields of a CVE: an int or a str.                  *)
(***************************************************************************)
PyInt(n) == [type |-> "int", int |-> n, str |-> <<>>]

PyStr(t) == [type |-> "str", int |-> 0, str |-> t]

DigitChar(d) == <<"0", "1", "2", "3", "4", "5", "6", "7", "8", "9">>[d + 1]

\* str() of a non-negative int
RECURSIVE IntToStr(_)
IntToStr(n) == IF n < 10 THEN <<DigitChar(n)>>
               ELSE IntToStr(n \div 10) \o <<DigitChar(n % 10)>>

\* '{:04}' of an int: zeros before the digits up to width 4
ZeroPadLeft(t) == IF Len(t) >= 4 THEN t ELSE [k \in 1..(4 - Len(t)) |-> "0"] \o t

\* line 38, '{self.id:04}': an int is right-aligned, a str left-aligned
format_04(v) == IF v.type = "int" THEN ZeroPadLeft(IntToStr(v.int)) ELSE Pad04(v.str)

\* line 38, '{self.year}'
format_plain(v) == IF v.type = "int" THEN IntToStr(v.int) ELSE v.str

\* CVE.__str__, lines 37-38, of a CVE with fields of either type
CVE_str_py(c) == <<"C", "V", "E", "-">> \o format_plain(c.year) \o <<"-">> \o format_04(c.id)

\* line 46, cls(**m.groupdict()): the fields are the matched text, unconverted
CVE_cls(m) == [year |-> PyStr(m.year), id |-> PyStr(m.id)]

\* dataclass __eq__: the tuples of fields are equal; an int never equals a str
CVE_eq(c, d) == c.year = d.year /\ c.id = d.id

\* the lists main can build: two repositories of one owner listed under one
\* identifier, or two repositories of two owners
Batches ==
    { << [cve |-> Cve1, login |-> "acme", name |-> <<"a">>],
         [cve |-> Cve1, login |-> "acme", name |-> <<"b">>] >>,
      << [cve |-> Cve1, login |-> "acme", name |-> <<"a">>],
         [cve |-> Cve1, login |-> "bob",  name |-> <<"c">>] >> }

Pairs == 1..Len(pocs)

login(i) == pocs[i].login

output_file(i) == <<pocs[i].cve.year, CVE_str(pocs[i].cve), login(i) \o ".zip">>

dirname(path) == <<path[1], path[2]>>

cached_branchname(i) == dirname(output_file(i)) \o <<"." \o login(i) \o ".branch">>

updated_at(i) == feed[i]

(***************************************************************************)
(* Files.                                                                  *)
(***************************************************************************)
NoFile == [exists |-> FALSE, content |-> <<>>, mtime |-> 0]

File(content, mtime) == [exists |-> TRUE, content |-> content, mtime |-> mtime]

\* f.write(f'{branch}\n')
SidecarText(b) == <<b, "\n">>

\* f.readline() without strip(): the line keeps its newline
ReadlineRaw(text) == IF text = <<>> THEN "" ELSE text[1] \o text[2]

\* f.readline().strip() on a sidecar's content
ReadlineStrip(text) == IF text = <<>> THEN "" ELSE text[1]

\* b'Empty repository'
Placeholder == <<[kind |-> "Empty repository", repo |-> 0, branch |-> "", part |-> 1]>>

(***************************************************************************)
(* The remote.                                                             *)
(***************************************************************************)
Branches == {"main", "master"}

\* body of GET <url>/archive/refs/heads/<b>.zip for pocs[i]: the zip of the
\* branch when the remote has it, else the body of the error response
ArchiveBody(i, b) ==
    IF repo[i] # "" /\ repo[i] = b
    THEN [k \in 1..MaxChunks |-> [kind |-> "zip", repo |-> i, branch |-> b, part |-> k]]
    ELSE <<[kind |-> "not found", repo |-> i, branch |-> b, part |-> 1]>>

\* the landing page of pocs[i] as the remote serves it: its commits links and
\* whether it carries 'This repository is empty.'
LandingPage(i) ==
    IF repo[i] = ""
    THEN [links |-> <<>>, empty |-> TRUE]
    ELSE [links |-> <<[login |-> login(i), name |-> pocs[i].name, branch |-> repo[i]]>>,
          empty |-> FALSE]

\* a page with neither a commits link nor the marker (an error page)
OtherPage == [links |-> <<>>, empty |-> FALSE]

\* the value of probe while no function is applied on its own
NoProbe == [stage |-> "none"]

Init ==
    /\ record_files = <<RecordName1>>
    /\ probe = NoProbe
    /\ pocs \in Batches
    /\ clock = 0
    /\ feed = [i \in Pairs |-> 0]
    /\ repo \in [Pairs -> Branches \cup {""}]
    /\ archive = [p \in {output_file(i) : i \in Pairs} |-> NoFile]
    /\ sidecar = [p \in {cached_branchname(i) : i \in Pairs} |-> NoFile]
    /\ pc = "idle"
    /\ idx = 0
    /\ exit_code = -1
    /\ branch = ""
    /\ resp = <<>>
    /\ exc = ""
    /\ faults = 0
    /\ pre = NoFile
    /\ trace = <<>>
    /\ result = [i \in Pairs |-> "none"]
    /\ resolved = [p \in {cached_branchname(i) : i \in Pairs} |-> ""]

(***************************************************************************)
(* The environment between two runs: the clock, the feed and the remotes.  *)
(***************************************************************************)
AtRest == pc \in {"idle", "exit"}

\* time passes (a run is short: every write of one run gets the same time)
Tick ==
    /\ AtRest
    /\ clock < MaxTime
    /\ clock' = clock + 1
    /\ pc' = "idle"
    /\ UNCHANGED <<record_files, probe, pocs, feed, repo, archive, sidecar, idx, exit_code, branch, resp,
                   exc, faults, pre, trace, result, resolved>>

\* the feed records a later update of pocs[i]'s repository (updated_at is a
\* time in the past, and it only moves forward)
FeedUpdate(i) ==
    /\ AtRest
    /\ \E u \in (feed[i] + 1)..clock : feed' = [feed EXCEPT ![i] = u]
    /\ result' = [result EXCEPT ![i] = "none"]
    /\ pc' = "idle"
    /\ UNCHANGED <<record_files, probe, pocs, clock, repo, archive, sidecar, idx, exit_code, branch, resp,
                   exc, faults, pre, trace, resolved>>

\* the owner of pocs[i]'s repository pushes its first commit (to main), or
\* renames the default branch (main to master)
RemoteChange(i) ==
    /\ AtRest
    /\ repo[i] # "master"
    /\ repo' = [repo EXCEPT ![i] = IF repo[i] = "" THEN "main" ELSE "master"]
    /\ pc' = "idle"
    /\ UNCHANGED <<record_files, probe, pocs, clock, feed, archive, sidecar, idx, exit_code, branch, resp,
                   exc, faults, pre, trace, result, resolved>>

\* a file with a malformed name appears in the feed
FeedAddsStray ==
    /\ AtRest
    /\ faults < MaxFaults
    /\ Len(record_files) = 1
    /\ record_files' = Append(record_files, StrayName)
    /\ faults' = faults + 1
    /\ pc' = "idle"
    /\ UNCHANGED <<probe, pocs, clock, feed, repo, archive, sidecar, idx, exit_code,
                   branch, resp, exc, pre, trace, result, resolved>>

\* the feed drops the malformed file again
FeedDropsStray ==
    /\ AtRest
    /\ Len(record_files) > 1
    /\ record_files' = <<record_files[1]>>
    /\ pc' = "idle"
    /\ UNCHANGED <<probe, pocs, clock, feed, repo, archive, sidecar, idx, exit_code,
                   branch, resp, exc, faults, pre, trace, result, resolved>>

(***************************************************************************)
(* main.                                                                   *)
(***************************************************************************)
\* lines 176-189: the feed is updated, the records are loaded, the output
\* directory is entered; the loop starts
main_begin ==
    /\ AtRest
    /\ \A k \in 1..Len(record_files) : CVE_fromstr(record_files[k]).ok
    /\ pc' = "loop"
    /\ idx' = 1
    /\ exit_code' = -1
    /\ UNCHANGED <<record_files, probe, pocs, clock, feed, repo, archive, sidecar, branch, resp, exc,
                   faults, pre, trace, result, resolved>>

\* lines 176-188 raise (git, CVE.fromstr, json.load, chdir): lines 197-204
main_toplevel_error ==
    /\ AtRest
    /\ faults < MaxFaults
    /\ faults' = faults + 1
    /\ pc' = "exit"
    /\ idx' = 0
    /\ exit_code' = 1
    /\ UNCHANGED <<record_files, probe, pocs, clock, feed, repo, archive, sidecar, branch, resp, exc,
                   pre, trace, result, resolved>>

\* a loop that handles EmptyRepository alone (no "except Exception")
pair_handler_narrow(e) == IF e = "EmptyRepository" THEN "continue" ELSE "propagate"

\* line 182 raises ValueError for a record file: lines 197-204
main_bad_name ==
    /\ AtRest
    /\ \E k \in 1..Len(record_files) : ~CVE_fromstr(record_files[k]).ok
    /\ pc' = "exit"
    /\ idx' = 0
    /\ exit_code' = 1
    /\ UNCHANGED <<record_files, probe, pocs, clock, feed, repo, archive, sidecar,
                   branch, resp, exc, faults, pre, trace, result, resolved>>

\* lines 193-196: what the loop's handlers do with an exception leaving
\* refresh_zip ("except Exception" takes every error the model raises)
pair_handler(e) ==
    IF e \in {"EmptyRepository", "RuntimeError", "ConnectionError", "OSError"}
    THEN "continue" ELSE "propagate"

\* line 192 returned: the loop goes on
main_pair_returned ==
    /\ pc = "returned"
    /\ result' = [result EXCEPT ![idx] = trace[Len(trace)]]
    /\ idx' = idx + 1
    /\ pc' = "loop"
    /\ branch' = ""
    /\ pre' = NoFile
    /\ trace' = <<>>
    /\ UNCHANGED <<record_files, probe, pocs, clock, feed, repo, archive, sidecar, exit_code, resp, exc,
                   faults, resolved>>

\* line 192 raised: lines 193-196, or lines 197-204 when no handler of the
\* loop takes the exception
main_pair_raised ==
    /\ pc = "raised"
    /\ result' = [result EXCEPT ![idx] = "failed"]
    /\ IF pair_handler(exc) = "continue"
       THEN pc' = "loop" /\ idx' = idx + 1 /\ UNCHANGED exit_code
       ELSE pc' = "exit" /\ exit_code' = 1 /\ UNCHANGED idx
    /\ branch' = ""
    /\ resp' = <<>>
    /\ exc' = ""
    /\ pre' = NoFile
    /\ trace' = <<>>
    /\ UNCHANGED <<record_files, probe, pocs, clock, feed, repo, archive, sidecar, faults, resolved>>

\* lines 190, 205-206: the list is exhausted
main_return ==
    /\ pc = "loop"
    /\ idx > Len(pocs)
    /\ pc' = "exit"
    /\ exit_code' = 0
    /\ UNCHANGED <<record_files, probe, pocs, clock, feed, repo, archive, sidecar, idx, branch, resp, exc,
                   faults, pre, trace, result, resolved>>

(***************************************************************************)
(* Exploit.refresh_zip, lines 106-121 (the directories of line 112 are not *)
(* files of the model).                                                    *)
(***************************************************************************)
\* a comparison that takes equal timestamps for stale
should_download_le(st, u) == (~st.exists) \/ st.mtime <= u

\* a refresh_zip that downloads whatever os.stat finds
should_download_always(st, u) == TRUE

\* a check that takes any mtime other than updated_at for stale
should_download_ne(st, u) == (~st.exists) \/ st.mtime # u

\* lines 113-118: the value of should_download for the stat result st
should_download(st, u) == (~st.exists) \/ st.mtime < u

refresh_zip ==
    /\ pc = "loop"
    /\ idx \in Pairs
    /\ LET st == archive[output_file(idx)] IN
       IF should_download(st, updated_at(idx))
       THEN /\ pc' = "download_zip"
            /\ pre' = st
            /\ trace' = <<"stat">>
       ELSE /\ pc' = "returned"
            /\ pre' = st
            /\ trace' = <<"stat", "skipped">>
    /\ UNCHANGED <<record_files, probe, pocs, clock, feed, repo, archive, sidecar, idx, exit_code, branch,
                   resp, exc, faults, result, resolved>>

(***************************************************************************)
(* Exploit.get_branch_name, lines 66-78, called on line 128.               *)
(***************************************************************************)
\* a get_branch_name that takes an empty sidecar for a missing one
use_cache_nonempty(sc) == sc.exists /\ sc.content # <<>>

\* lines 71-74: open() of the sidecar succeeds, whatever the file holds
use_cache(sc) == sc.exists

\* lines 72-73: the sidecar exists
get_branch_name_cached ==
    /\ pc = "download_zip"
    /\ use_cache(sidecar[cached_branchname(idx)])
    /\ branch' = ReadlineStrip(sidecar[cached_branchname(idx)].content)
    /\ trace' = Append(trace, "sidecar")
    /\ pc' = "get"
    /\ UNCHANGED <<record_files, probe, pocs, clock, feed, repo, archive, sidecar, idx, exit_code, resp,
                   exc, faults, pre, result, resolved>>

\* line 86, name=self.data['name'] put into the pattern as it is: of the
\* characters a repository name may hold, '.' stands for any character
name_matches(pattern, text) ==
    /\ Len(pattern) = Len(text)
    /\ \A k \in 1..Len(pattern) : pattern[k] = "." \/ pattern[k] = text[k]

\* lines 85-87: the links of the page the pattern matches, in page order; the
\* login is escaped (line 86) and matches itself only
Matches(i, page) ==
    SelectSeq(page.links,
              LAMBDA l : /\ l.login = login(i)
                         /\ name_matches(pocs[i].name, l.name)
                         /\ l.branch # "")

\* lines 84-92 on a page: the branch of the first match, or the exception
from_github(i, page) ==
    IF Matches(i, page) # <<>>
    THEN [raise |-> "", branch |-> Matches(i, page)[1].branch]
    ELSE IF page.empty
         THEN [raise |-> "EmptyRepository", branch |-> ""]
         ELSE [raise |-> "RuntimeError", branch |-> ""]

\* a download_zip without its "except EmptyRepository"
download_zip_handler_none(e) == "raised"

\* lines 127, 133: where an exception raised inside download_zip's try goes
download_zip_handler(e) == IF e = "EmptyRepository" THEN "empty" ELSE "raised"

\* line 84 raises: the landing page cannot be fetched
landing_get_error ==
    /\ pc = "download_zip"
    /\ ~use_cache(sidecar[cached_branchname(idx)])
    /\ faults < MaxFaults
    /\ faults' = faults + 1
    /\ trace' = Append(trace, "landing")
    /\ exc' = "ConnectionError"
    /\ pc' = download_zip_handler("ConnectionError")
    /\ UNCHANGED <<record_files, probe, pocs, clock, feed, repo, archive, sidecar, idx, exit_code, branch,
                   resp, pre, result, resolved>>

\* lines 74-78 with lines 84-92: no sidecar, the page is fetched and searched;
\* a branch found is written to the sidecar and returned, an exception goes
\* to download_zip's handler
get_branch_name_from_github ==
    /\ pc = "download_zip"
    /\ ~use_cache(sidecar[cached_branchname(idx)])
    /\ trace' = Append(trace, "landing")
    /\ \E page \in {LandingPage(idx)} \cup (IF faults < MaxFaults THEN {OtherPage} ELSE {}) :
         LET r == from_github(idx, page) IN
         /\ faults' = IF page = LandingPage(idx) THEN faults ELSE faults + 1
         /\ IF r.raise = ""
            THEN /\ sidecar' = [sidecar EXCEPT ![cached_branchname(idx)] =
                                    File(SidecarText(r.branch), 0)]
                 /\ resolved' = [resolved EXCEPT ![cached_branchname(idx)] = r.branch]
                 /\ branch' = r.branch
                 /\ pc' = "get"
                 /\ UNCHANGED exc
            ELSE /\ exc' = IF download_zip_handler(r.raise) = "raised" THEN r.raise ELSE ""
                 /\ pc' = download_zip_handler(r.raise)
                 /\ UNCHANGED <<sidecar, resolved, branch>>
    /\ UNCHANGED <<record_files, probe, pocs, clock, feed, repo, archive, idx, exit_code, resp, pre, result>>

\* lines 76-77 raise after a branch was found: open() fails and creates
\* nothing, or the file is created and the line is not written
sidecar_write_error ==
    /\ pc = "download_zip"
    /\ ~use_cache(sidecar[cached_branchname(idx)])
    /\ from_github(idx, LandingPage(idx)).raise = ""
    /\ faults < MaxFaults
    /\ faults' = faults + 1
    /\ trace' = Append(trace, "landing")
    /\ \E created \in BOOLEAN :
         sidecar' = IF created
                    THEN [sidecar EXCEPT ![cached_branchname(idx)] = File(<<>>, 0)]
                    ELSE sidecar
    /\ exc' = "OSError"
    /\ pc' = download_zip_handler("OSError")
    /\ UNCHANGED <<record_files, probe, pocs, clock, feed, repo, archive, idx, exit_code, branch, resp, pre,
                   result, resolved>>

(***************************************************************************)
(* Exploit.download_zip, lines 123-136.                                    *)
(***************************************************************************)
\* line 129 raises: the archive request fails before any byte is stored
archive_get_error ==
    /\ pc = "get"
    /\ faults < MaxFaults
    /\ faults' = faults + 1
    /\ trace' = Append(trace, "archive")
    /\ exc' = "ConnectionError"
    /\ pc' = download_zip_handler("ConnectionError")
    /\ UNCHANGED <<record_files, probe, pocs, clock, feed, repo, archive, sidecar, idx, exit_code, branch,
                   resp, pre, result, resolved>>

\* lines 129-130: the response arrives (its status is not looked at) and
\* open(output_file, 'wb') creates or truncates the destination
archive_get ==
    /\ pc = "get"
    /\ trace' = Append(trace, "archive")
    /\ resp' = ArchiveBody(idx, branch)
    /\ archive' = [archive EXCEPT ![output_file(idx)] = File(<<>>, clock)]
    /\ pc' = "stream"
    /\ UNCHANGED <<record_files, probe, pocs, clock, feed, repo, sidecar, idx, exit_code, branch, exc,
                   faults, pre, result, resolved>>

\* lines 131-132: one chunk is received and written
write_chunk ==
    /\ pc = "stream"
    /\ resp # <<>>
    /\ archive' = [archive EXCEPT ![output_file(idx)] =
                       File(Append(@.content, Head(resp)), clock)]
    /\ resp' = Tail(resp)
    /\ UNCHANGED <<record_files, probe, pocs, clock, feed, repo, sidecar, pc, idx, exit_code, branch, exc,
                   faults, pre, trace, result, resolved>>

\* line 131 or 132 raises: the transfer breaks before the body is complete
stream_error ==
    /\ pc = "stream"
    /\ resp # <<>>
    /\ faults < MaxFaults
    /\ faults' = faults + 1
    /\ exc' = "ConnectionError"
    /\ pc' = download_zip_handler("ConnectionError")
    /\ UNCHANGED <<record_files, probe, pocs, clock, feed, repo, archive, sidecar, idx, exit_code, branch,
                   resp, pre, trace, result, resolved>>

\* lines 133-135: the placeholder replaces the archive
write_placeholder ==
    /\ pc = "empty"
    /\ archive' = [archive EXCEPT ![output_file(idx)] = File(Placeholder, clock)]
    /\ trace' = Append(trace, "placeholder")
    /\ pc' = "utime"
    /\ UNCHANGED <<record_files, probe, pocs, clock, feed, repo, sidecar, idx, exit_code, branch, resp, exc,
                   faults, pre, result, resolved>>

\* a timestamp one second short of updated_at
utime_arg_short(i) == updated_at(i) - 1

\* line 136: the time os.utime gives the file of pocs[i]
utime_arg(i) == updated_at(i)

\* line 136, after the body was written
stream_end_utime ==
    /\ pc = "stream"
    /\ resp = <<>>
    /\ trace' = Append(trace, "downloaded")
    /\ archive' = [archive EXCEPT ![output_file(idx)].mtime = utime_arg(idx)]
    /\ pc' = "returned"
    /\ UNCHANGED <<record_files, probe, pocs, clock, feed, repo, sidecar, idx, exit_code, branch, resp, exc,
                   faults, pre, result, resolved>>

\* line 136, after the placeholder was written
placeholder_utime ==
    /\ pc = "utime"
    /\ archive' = [archive EXCEPT ![output_file(idx)].mtime = utime_arg(idx)]
    /\ pc' = "returned"
    /\ UNCHANGED <<record_files, probe, pocs, clock, feed, repo, sidecar, idx, exit_code, branch, resp, exc,
                   faults, pre, trace, result, resolved>>

Next ==
    \/ Tick
    \/ \E i \in Pairs : FeedUpdate(i)
    \/ \E i \in Pairs : RemoteChange(i)
    \/ FeedAddsStray
    \/ FeedDropsStray
    \/ main_begin
    \/ main_bad_name
    \/ main_toplevel_error
    \/ main_pair_returned
    \/ main_pair_raised
    \/ main_return
    \/ refresh_zip
    \/ get_branch_name_cached
    \/ landing_get_error
    \/ get_branch_name_from_github
    \/ sidecar_write_error
    \/ archive_get_error
    \/ archive_get
    \/ write_chunk
    \/ stream_error
    \/ write_placeholder
    \/ stream_end_utime
    \/ placeholder_utime

Spec == Init /\ [][Next]_vars

(***************************************************************************)
(* CVE.__str__, CVE.fromstr and get_branch_name_from_github applied on     *)
(* their own to inputs drawn from small sets.                              *)
(***************************************************************************)
Years == {1999, 2021}

Ids == {0, 1, 12, 123, 1234, 9999, 10000, 12345}

\* repository names: plain, with a '.', and one that differs from it there
ProbeNames == {<<"a", "b">>, <<"a", ".", "b">>, <<"a", "X", "b">>}

ProbeLinks == [login : {"acme", "bob"}, name : ProbeNames, branch : {"main", "dev"}]

ProbePages ==
    [links : UNION {[1..n -> ProbeLinks] : n \in 0..MaxLinks}, empty : BOOLEAN]

ProbeBatches == {<<[cve |-> Cve1, login |-> "acme", name |-> n]>> : n \in ProbeNames}

InitPure ==
    /\ record_files = <<RecordName1>>
    /\ pocs \in ProbeBatches
    /\ probe \in [stage : {"cve"}, year : Years, id : Ids]
                 \cup [stage : {"page"}, page : ProbePages]
    /\ clock = 0
    /\ feed = [i \in Pairs |-> 0]
    /\ repo = [i \in Pairs |-> ""]
    /\ archive = [p \in {output_file(i) : i \in Pairs} |-> NoFile]
    /\ sidecar = [p \in {cached_branchname(i) : i \in Pairs} |-> NoFile]
    /\ pc = "idle"
    /\ idx = 0
    /\ exit_code = -1
    /\ branch = ""
    /\ resp = <<>>
    /\ exc = ""
    /\ faults = 0
    /\ pre = NoFile
    /\ trace = <<>>
    /\ result = [i \in Pairs |-> "none"]
    /\ resolved = [p \in {cached_branchname(i) : i \in Pairs} |-> ""]

\* str(CVE(year, id)), lines 37-38
apply_str ==
    /\ probe.stage = "cve"
    /\ probe' = [stage |-> "str", year |-> probe.year, id |-> probe.id,
                 text |-> CVE_str_py([year |-> PyInt(probe.year), id |-> PyInt(probe.id)])]
    /\ UNCHANGED <<record_files, pocs, clock, feed, repo, archive, sidecar, pc, idx,
                   exit_code, branch, resp, exc, faults, pre, trace, result, resolved>>

\* CVE.fromstr of that text, lines 40-46
apply_fromstr ==
    /\ probe.stage = "str"
    /\ probe' = [stage |-> "parsed", year |-> probe.year, id |-> probe.id,
                 text |-> probe.text,
                 ok |-> CVE_fromstr(probe.text).ok,
                 cve |-> CVE_cls(CVE_fromstr(probe.text))]
    /\ UNCHANGED <<record_files, pocs, clock, feed, repo, archive, sidecar, pc, idx,
                   exit_code, branch, resp, exc, faults, pre, trace, result, resolved>>

\* get_branch_name_from_github of pocs[1] on the page, lines 84-92
apply_from_github ==
    /\ probe.stage = "page"
    /\ probe' = [stage |-> "scraped", page |-> probe.page,
                 out |-> from_github(1, probe.page)]
    /\ UNCHANGED <<record_files, pocs, clock, feed, repo, archive, sidecar, pc, idx,
                   exit_code, branch, resp, exc, faults, pre, trace, result, resolved>>

NextPure ==
    \/ apply_str
    \/ apply_fromstr
    \/ apply_from_github

SpecPure == InitPure /\ [][NextPure]_vars

TypeOK ==
    /\ pocs \in Batches
    /\ clock \in 0..MaxTime
    /\ feed \in [Pairs -> 0..MaxTime]
    /\ repo \in [Pairs -> Branches \cup {""}]
    /\ idx \in 0..(Len(pocs) + 1)
    /\ exit_code \in {-1, 0, 1}
    /\ faults \in 0..MaxFaults

(***************************************************************************)
(* Properties.                                                             *)
(***************************************************************************)
\* a refresh_zip call for pocs[idx] is under way or has just ended
InCall == pc \in {"download_zip", "get", "stream", "empty", "utime", "returned", "raised"}

Skipped == trace = <<"stat", "skipped">>

\* a stored body that is not cut short
IsWhole(content) ==
    /\ content # <<>>
    /\ content[1].kind = "zip" => Len(content) = MaxChunks

\* C1: when the archive request or the streaming of its chunks raises, the
\* destination is absent or still holds the content it had before the call.
C1_NoTruncatedArchive ==
    (pc = "raised" /\ trace[Len(trace)] = "archive") =>
        LET f == archive[output_file(idx)] IN
        ~f.exists \/ (pre.exists /\ f.content = pre.content)

\* C2: a pair whose processing failed under its current descriptor has an
\* archive the freshness check takes for stale, so that the next run retries it.
C2_FailedPairStaysStale ==
    \A i \in Pairs :
        result[i] = "failed" => should_download(archive[output_file(i)], updated_at(i))

\* C3: after a run in which every pair was synced without error, the archive
\* of each pair holds content fetched from that pair's own repository.
C3_OwnArchive ==
    (pc = "exit" /\ exit_code = 0
        /\ \A i \in Pairs : result[i] \in {"downloaded", "skipped"}) =>
    \A i \in Pairs :
        LET f == archive[output_file(i)] IN
        f.exists /\ \A k \in 1..Len(f.content) : f.content[k].repo = i

\* C4: when refresh_zip returns without raising, the pair's archive exists and
\* its mtime equals updated_at.
C4_StampedOnReturn ==
    pc = "returned" =>
        LET f == archive[output_file(idx)] IN
        f.exists /\ f.mtime = updated_at(idx)

C6_EmptyRepository ==
    /\ pc = "raised" => exc # "EmptyRepository"
    /\ (pc = "returned" /\ trace[Len(trace)] = "placeholder") =>
          LET f == archive[output_file(idx)] IN
          f.exists /\ f.content = Placeholder /\ f.mtime = updated_at(idx)
    /\ (InCall /\ result[idx] = "placeholder") => (pc = "returned" /\ Skipped)

\* a later call skips a pair whose archive is the placeholder
C6_Witness ==
    /\ pc = "returned" /\ Skipped
    /\ result[idx] = "placeholder"
    /\ archive[output_file(idx)].content = Placeholder

\* C7 as stated: the second of two calls with the same descriptor is always
\* a no-op decided by the freshness check.
C7_SecondCallNoOp ==
    (InCall /\ result[idx] # "none") => (pc = "returned" /\ Skipped)

\* C7 amended: when the first of two calls with the same descriptor returned
\* without raising, the second is a no-op decided by the freshness check (no
\* request at all, so at most one archive transfer in the two calls).
C7_SecondCallNoOpAfterSuccess ==
    (InCall /\ result[idx] \in {"skipped", "downloaded", "placeholder"})
        => (pc = "returned" /\ Skipped)

\* the call after a download, with updated_at unchanged, skips
C7_Witness ==
    /\ pc = "returned" /\ Skipped
    /\ result[idx] = "downloaded"
    /\ updated_at(idx) > 0

\* C8 as stated: the branch is resolved before the freshness check.
C8_ResolveBeforeFreshness ==
    \A k \in 1..Len(trace) :
        trace[k] = "stat" => \E j \in 1..(k - 1) : trace[j] \in {"sidecar", "landing"}

\* C8 amended: the freshness check comes first; a pair found fresh is skipped
\* with no branch resolution; a pair found stale has its branch resolved
\* (sidecar read or landing-page request) and then its archive fetched or the
\* placeholder written; the call returns after the skip or the fetch.
C8_FreshnessBeforeResolve ==
    /\ InCall => trace # <<>> /\ trace[1] = "stat"
    /\ \A k \in 1..Len(trace) :
         /\ trace[k] = "stat" => k = 1
         /\ trace[k] = "skipped" => (k = 2 /\ Len(trace) = 2 /\ pc = "returned")
         /\ trace[k] \in {"sidecar", "landing"} =>
               (k = 2 /\ (~pre.exists \/ pre.mtime < updated_at(idx)))
         /\ trace[k] \in {"archive", "placeholder"} =>
               (k = 3 /\ trace[2] \in {"sidecar", "landing"})
         /\ trace[k] = "downloaded" => (k = 4 /\ trace[3] = "archive")
    /\ pc = "returned" => trace[Len(trace)] \in {"skipped", "downloaded", "placeholder"}

\* a stale pair went through check, resolution and fetch, in this order
C8_Witness ==
    /\ pc = "returned"
    /\ trace = <<"stat", "landing", "archive", "downloaded">>
    /\ pre.exists

\* C9: once a landing-page resolution has succeeded for a sidecar path, the
\* sidecar exists and holds the resolved name, and every later resolution
\* for that path returns this name without a landing-page request.
C9_BranchCache ==
    /\ [](\A p \in DOMAIN resolved :
             resolved[p] # "" =>
                 sidecar[p].exists /\ sidecar[p].content = <<resolved[p], "\n">>)
    /\ [][(pc = "download_zip" /\ resolved[cached_branchname(idx)] # "") =>
             /\ pc' = "get"
             /\ branch' = resolved[cached_branchname(idx)]
             /\ trace' = Append(trace, "sidecar")]_vars

\* a branch read from a sidecar that an earlier resolution wrote
C9_Witness ==
    /\ pc = "get"
    /\ trace = <<"stat", "sidecar">>
    /\ branch # ""
    /\ branch = resolved[cached_branchname(idx)]

\* C10: refresh_zip starts a download if and only if os.stat found no file or
\* an mtime strictly earlier than updated_at.
C10_FreshnessOracle ==
    InCall => (~Skipped <=> (~pre.exists \/ pre.mtime < updated_at(idx)))

\* equal timestamps: no download
C10_Witness ==
    /\ InCall /\ Skipped
    /\ pre.exists /\ pre.mtime = updated_at(idx)
\* C12: a run that finds a record file with a malformed name, or whose steps
\* before the loop fail otherwise, ends with exit code 1 without having
\* processed a pair: no archive, no sidecar is written and no request made.
C12_TopLevelAbort ==
    /\ [](pc = "exit" /\ exit_code = 1 => idx = 0)
    /\ [][(AtRest /\ (\E k \in 1..Len(record_files) : record_files[k] = StrayName)
                  /\ pc' # "idle")
            => (pc' = "exit" /\ exit_code' = 1 /\ idx' = 0)]_vars
    /\ [][(pc' = "exit" /\ exit_code' = 1)
            => (AtRest /\ archive' = archive /\ sidecar' = sidecar /\ trace' = trace
                       /\ result' = result)]_vars

\* a run aborted on the malformed name, after an earlier run had stored an archive
C12_Witness ==
    /\ pc = "exit" /\ exit_code = 1 /\ idx = 0
    /\ \E k \in 1..Len(record_files) : record_files[k] = StrayName
    /\ \E i \in Pairs : archive[output_file(i)].exists

\* C13: a failure to write the sidecar after the landing page gave a branch
\* does not fail the pair.
C13_SidecarFailureNotFatal ==
    (pc = "raised" /\ trace = <<"stat", "landing">>) => exc # "OSError"

\* C14: a sidecar that exists is never rewritten nor deleted, and every
\* resolution made while it exists returns its first line, without a request,
\* whatever the remote's default branch has become.
C14_SidecarKept ==
    /\ [][\A p \in DOMAIN sidecar : sidecar[p].exists => sidecar'[p] = sidecar[p]]_vars
    /\ [][(pc = "download_zip" /\ sidecar[cached_branchname(idx)].exists) =>
             /\ pc' = "get"
             /\ trace' = Append(trace, "sidecar")
             /\ branch' = IF sidecar[cached_branchname(idx)].content = <<>> THEN ""
                          ELSE sidecar[cached_branchname(idx)].content[1]]_vars

\* the archive is refreshed with the branch of the sidecar after the default
\* branch was renamed
C14_Witness ==
    /\ pc = "get" /\ trace = <<"stat", "sidecar">>
    /\ pre.exists /\ pre.mtime < updated_at(idx)
    /\ branch = "main" /\ repo[idx] = "master"
    /\ resolved[cached_branchname(idx)] = "main"
\* C16: an archive is stored and stamped only from a response with a success
\* status: a call that ends with the file stamped never leaves the body of an
\* error response in it.
C16_OnlySuccessStored ==
    (pc = "returned" /\ trace[Len(trace)] = "downloaded") =>
        \A k \in 1..Len(archive[output_file(idx)].content) :
            archive[output_file(idx)].content[k].kind # "not found"

\* C17: when the archive exists with an mtime not older than updated_at,
\* refresh_zip returns at once: the archive (content and mtime) and the sidecars
\* stay as they are and neither the landing page nor the archive is requested.
C17_FreshIsNoOp ==
    /\ [][(pc = "loop" /\ idx \in Pairs /\ archive[output_file(idx)].exists
             /\ archive[output_file(idx)].mtime >= feed[idx])
            => (pc' = "returned" /\ trace' = <<"stat", "skipped">>
                  /\ archive' = archive /\ sidecar' = sidecar
                  /\ resolved' = resolved)]_vars
    /\ []((InCall /\ Skipped) =>
            (pre.exists /\ pre.mtime >= feed[idx] /\ archive[output_file(idx)] = pre))

\* a fresh archive newer than updated_at was left alone, with no sidecar around
C17_Witness ==
    /\ pc = "returned" /\ Skipped
    /\ pre.exists /\ pre.mtime > updated_at(idx)
    /\ archive[output_file(idx)] = pre

\* C18: a resolution that raises EmptyRepository leaves no sidecar behind, and
\* a later call that finds the placeholder stale while the repository has
\* commits resolves the branch from the landing page, writes the sidecar and
\* replaces the placeholder by the archive, stamped with updated_at.
C18_FreshResolutionAfterEmpty ==
    /\ pc = "empty" => ~sidecar[cached_branchname(idx)].exists
    /\ (pc = "returned" /\ ~Skipped /\ pre.exists /\ pre.content = Placeholder
          /\ repo[idx] # "") =>
         /\ trace = <<"stat", "landing", "archive", "downloaded">>
         /\ sidecar[cached_branchname(idx)] = File(SidecarText(repo[idx]), 0)
         /\ archive[output_file(idx)] =
                File(ArchiveBody(idx, repo[idx]), updated_at(idx))

\* C19: every sidecar on disk holds a branch name a landing page gave, and the
\* branch get_branch_name returns is never empty.
C19_SidecarNonEmpty ==
    /\ \A p \in DOMAIN sidecar : sidecar[p].exists =>
          /\ sidecar[p].content # <<>>
          /\ sidecar[p].content[1] \in Branches
    /\ pc = "get" => branch # ""
\* C11: for every year and sequence number, CVE.fromstr(str(CVE(year, id)))
\* equals CVE(year, id), and the text carries the sequence number with zeros
\* on the left up to 4 digits, whole when it has more.
C11_RoundTrip ==
    probe.stage = "parsed" =>
        /\ probe.text = <<"C", "V", "E", "-">> \o IntToStr(probe.year) \o <<"-">>
                          \o ZeroPadLeft(IntToStr(probe.id))
        /\ probe.ok
        /\ CVE_eq(probe.cve, [year |-> PyInt(probe.year), id |-> PyInt(probe.id)])

\* C15: get_branch_name_from_github returns the branch of the first commits
\* link whose owner and repository are the login and the name of the
\* descriptor, character for character; without such a link it raises
\* EmptyRepository when the page has the marker and RuntimeError otherwise.
C15_ExactLink ==
    probe.stage = "scraped" =>
        LET own == SelectSeq(probe.page.links,
                             LAMBDA l : l.login = login(1) /\ l.name = pocs[1].name)
        IN  probe.out = IF own # <<>> THEN [raise |-> "", branch |-> own[1].branch]
                        ELSE IF probe.page.empty
                             THEN [raise |-> "EmptyRepository", branch |-> ""]
                             ELSE [raise |-> "RuntimeError", branch |-> ""]
====
